---- MODULE Spec2Model ----
(***************************************************************************)
(* A model of cinemas.py: the Cacher key/value store with expiry, the     *)
(* fetch_page network shield built on it, the kinopoisk reconciliation of  *)
(* afisha listings, the Levenshtein matcher and the console ranker.        *)
(***************************************************************************)
EXTENDS Integers, Sequences, FiniteSets, TLC

VARIABLES
    now,          \* Cacher._now(): int(time.time())
    clsObjects,   \* Cacher.objects, the class attribute shared by all instances
    instObjects,  \* per Cacher object: whether remove_all gave it its own `objects`
    disk,         \* the files of <tmp>/cacher/cinemas, one per key
    lastOp,       \* the call that returned last, and the branch it took
    ret,          \* what that call returned
    lastPut,      \* history: per object and key, the entry of the latest put not
                  \* followed by a put/remove/remove_all touching that key
    wiped,        \* history: keys stored before a remove_all and not put since
    call,         \* history of the last fetch_page call
    movie,        \* parse_afisha_list: movies[i] of the block handled last
    levIn,        \* the two strings handed to the matcher
    levOut,       \* its distance and the merge gate's verdict
    rankIn,       \* output_movies_to_console: its arguments
    rankOut       \* the rows it printed, or the exception it raised

cacheVars == <<now, clsObjects, instObjects, disk, lastOp, ret, lastPut, wiped>>

pipeVars == <<call, movie>>

levVars == <<levIn, levOut>>

rankVars == <<rankIn, rankOut>>

vars == <<cacheVars, pipeVars, levVars, rankVars>>

----------------------------------------------------------------------------
(* Bounds *)

\* the clock of the cache store runs from 0 to MaxNow
MaxNow == 2

\* time-to-live values handed to put: 1..MaxTtl
MaxTtl == 2

\* the matcher is run on every string of up to MaxLen letters
MaxLen == 4

\* the ranker is run on every list of up to MaxMovies movies
MaxMovies == 3

\* the clock of the fetcher is read up to MaxSlack seconds after the start and
\* after one cache lifetime
MaxSlack == 1

----------------------------------------------------------------------------
(* Python values held by the cache.  Every payload has the same fields so  *)
(* that any two can be compared.                                           *)

\* Python's None (also what page.json() yields for the body `null`)
PyNone == [kind |-> "None", text |-> <<>>, items |-> 0, cands |-> <<>>]

\* a str
PyText(s) == [kind |-> "Text", text |-> s, items |-> 0, cands |-> <<>>]

\* a dict decoded from a JSON object
PyDict == [kind |-> "Dict", text |-> <<>>, items |-> 0, cands |-> <<>>]

\* a list of n items decoded from a JSON array; c is its item [2] when n > 2
PyList(n, c) == [kind |-> "List", text |-> <<>>, items |-> n, cands |-> c]

\* the objects the cache operations are exercised with
Values == {PyDict, PyText(<<"x">>)}

\* the key main() uses
Keys == {"popular_movies"}

\* CACHE is the module-level object; "other" is a second Cacher("cinemas")
Insts == {"CACHE", "other"}

----------------------------------------------------------------------------
(* Cacher.  The operations are functions of the store S = [cls, inst, disk] *)
(* so that fetch_page can call them; the actions apply them to the state.  *)

\* a key that is not in a dict / a file that does not exist
Absent == [present |-> FALSE, data |-> PyNone, expires |-> 0]

Entry(obj, expires) == [present |-> TRUE, data |-> obj, expires |-> expires]

Store == [cls |-> clsObjects, inst |-> instObjects, disk |-> disk]

EmptyDict == [k \in DOMAIN disk |-> Absent]

\* self.objects: the instance attribute once remove_all has bound one,
\* the class attribute otherwise
ObjectsOf(S, i) == IF S.inst[i].own THEN S.inst[i].dict ELSE S.cls

Objects(i) == ObjectsOf(Store, i)

\* a mutation of the dict self.objects denotes
WithObjects(S, i, d) ==
    IF S.inst[i].own THEN [S EXCEPT !.inst[i].dict = d] ELSE [S EXCEPT !.cls = d]

\* msgpack.pack of {"data", "expires"} into the key's file
_write(files, name, e) == [files EXCEPT ![name] = e]

\* msgpack.unpack: str/int/list/map payloads come back as written
_read(files, name) == files[name]

\* os.remove(filepath), FileNotFoundError swallowed
OsRemove(files, name) == [files EXCEPT ![name] = Absent]

ExpiredStrict(e) == e.expires < now

\* self.objects[name]["expires"] <= self._now()
Expired(e) == e.expires <= now

put(S, i, name, obj, expires) ==
    LET e == Entry(obj, now + expires)
        S1 == WithObjects(S, i, [ObjectsOf(S, i) EXCEPT ![name] = e])
        S2 == [S1 EXCEPT !.disk = _write(S1.disk, name, e)]
    IN [S |-> S2, ret |-> ObjectsOf(S2, i)[name].data, branch |-> "put"]

get(S, i, name) ==
    LET objs == ObjectsOf(S, i)
        hit == objs[name].present
    IN IF ~hit /\ ~S.disk[name].present
       THEN [S |-> S, ret |-> PyNone, branch |-> "miss"]
       ELSE LET S1 == IF hit THEN S
                      ELSE WithObjects(S, i, [objs EXCEPT ![name] = _read(S.disk, name)])
                e == ObjectsOf(S1, i)[name]
            IN IF Expired(e)
               THEN [S |-> [S1 EXCEPT !.disk = OsRemove(S1.disk, name)],
                     ret |-> PyNone, branch |-> "expired"]
               ELSE [S |-> S1, ret |-> e.data, branch |-> "fresh"]

remove(S, i, name) ==
    LET S1 == WithObjects(S, i, [ObjectsOf(S, i) EXCEPT ![name] = Absent])
    IN [S |-> [S1 EXCEPT !.disk = OsRemove(S1.disk, name)],
        ret |-> PyNone, branch |-> "remove"]

\* shutil.rmtree, _ensure_dir, then `self.objects = {}`: an assignment to the
\* instance, which leaves the class attribute Cacher.objects as it was
remove_all(S, i) ==
    [S |-> [S EXCEPT !.disk = EmptyDict,
                     !.inst[i] = [own |-> TRUE, dict |-> EmptyDict]],
     ret |-> PyNone, branch |-> "remove_all"]

Returned(r, op, i, name) ==
    /\ clsObjects' = r.S.cls
    /\ instObjects' = r.S.inst
    /\ disk' = r.S.disk
    /\ ret' = r.ret
    /\ lastOp' = [op |-> op, inst |-> i, key |-> name, branch |-> r.branch]

Forget(name) == [j \in Insts |-> [lastPut[j] EXCEPT ![name] = Absent]]

Put(i, name, obj, expires) ==
    /\ Returned(put(Store, i, name, obj, expires), "put", i, name)
    /\ lastPut' = [Forget(name) EXCEPT ![i][name] = Entry(obj, now + expires)]
    /\ wiped' = wiped \ {name}
    /\ UNCHANGED <<now, pipeVars, levVars, rankVars>>

Get(i, name) ==
    /\ Returned(get(Store, i, name), "get", i, name)
    /\ UNCHANGED <<now, lastPut, wiped, pipeVars, levVars, rankVars>>

Remove(i, name) ==
    /\ Returned(remove(Store, i, name), "remove", i, name)
    /\ lastPut' = Forget(name)
    /\ UNCHANGED <<now, wiped, pipeVars, levVars, rankVars>>

RemoveAll(i) ==
    /\ Returned(remove_all(Store, i), "remove_all", i, "popular_movies")
    /\ lastPut' = [j \in Insts |-> EmptyDict]
    /\ wiped' = wiped \cup {k \in Keys : \/ disk[k].present
                                         \/ clsObjects[k].present
                                         \/ Objects(i)[k].present}
    /\ UNCHANGED <<now, pipeVars, levVars, rankVars>>

\* time passes
Tick ==
    /\ now < MaxNow
    /\ now' = now + 1
    /\ lastOp' = [op |-> "tick", inst |-> "CACHE", key |-> "popular_movies",
                  branch |-> "tick"]
    /\ ret' = PyNone
    /\ UNCHANGED <<clsObjects, instObjects, disk, lastPut, wiped>>
    /\ UNCHANGED <<pipeVars, levVars, rankVars>>

\* a cache directory just created by Cacher.__init__, nothing stored yet
StoreInit(keys) ==
    /\ now = 0
    /\ clsObjects = [k \in keys |-> Absent]
    /\ instObjects = [i \in Insts |->
                        [own |-> FALSE, dict |-> [k \in keys |-> Absent]]]
    /\ disk = [k \in keys |-> Absent]
    /\ lastOp = [op |-> "init", inst |-> "CACHE", key |-> "popular_movies",
                 branch |-> "init"]
    /\ ret = PyNone
    /\ lastPut = [j \in Insts |-> [k \in keys |-> Absent]]
    /\ wiped = {}

PipeIdle == call = "idle" /\ movie = "idle"

LevIdle == levIn = "idle" /\ levOut = "idle"

RankIdle == rankIn = "idle" /\ rankOut = "idle"

CacheInit == StoreInit(Keys) /\ PipeIdle /\ LevIdle /\ RankIdle

DoPut == \E i \in Insts, k \in Keys, v \in Values, t \in 1..MaxTtl : Put(i, k, v, t)

DoGet == \E i \in Insts, k \in Keys : Get(i, k)

DoRemove == \E i \in Insts, k \in Keys : Remove(i, k)

DoRemoveAll == \E i \in Insts : RemoveAll(i)

CacheNext == DoPut \/ DoGet \/ DoRemove \/ DoRemoveAll \/ Tick

SpecCache == CacheInit /\ [][CacheNext]_vars

----------------------------------------------------------------------------
(* Claims about the cache store *)

GetReturned == lastOp.op = "get"

\* the put that a get of the same object and key answers to
Answered == lastPut[lastOp.inst][lastOp.key]

\* C1: after put(k, v, ttl), a get(k) by the same object with no put, remove or
\* remove_all on k in between returns v while now < expiresAt, and returns None
\* once now >= expiresAt, after which no file for k is left
C1_RoundTripAndExpiry ==
    (GetReturned /\ Answered.present) =>
        /\ now < Answered.expires => ret = Answered.data
        /\ now >= Answered.expires => (ret = PyNone /\ ~disk[lastOp.key].present)

\* C1 witness: a get made after the entry put earlier has expired
C1_Witness ==
    /\ GetReturned /\ Answered.present
    /\ now >= Answered.expires
    /\ ret = PyNone

\* C2: when get finds the entry expired, on return the entry is gone from the
\* in-memory index and from durable storage, and get returned None
C2_LazyExpiryClearsBothLayers ==
    (GetReturned /\ lastOp.branch = "expired") =>
        /\ ~Objects(lastOp.inst)[lastOp.key].present
        /\ ~disk[lastOp.key].present
        /\ ret = PyNone

\* C3: after remove_all the store is as freshly initialized: no object of the
\* namespace holds an entry in memory, storage holds none, a get of a key
\* stored before returns None, and a later put followed by get returns the value
C3_RemoveAllLeavesFreshStore ==
    /\ lastOp.op = "remove_all" =>
          \A i \in Insts, k \in Keys : ~Objects(i)[k].present /\ ~disk[k].present
    /\ (GetReturned /\ lastOp.key \in wiped) => ret = PyNone
    /\ (GetReturned /\ Answered.present /\ now < Answered.expires) =>
          ret = Answered.data

----------------------------------------------------------------------------
(* Identity matcher.  A str is a sequence of one-character strings.        *)

Letters == {"a", "b"}

\* titles that differ from the strings over Letters by case
MixedCase == {<<"A", "A", "A", "A">>, <<"B", "B", "B", "B">>, <<"A", "b">>, <<"a", "B">>}

Names == UNION {[1..n -> Letters] : n \in 0..MaxLen} \cup MixedCase

\* the threshold of the merge gate
Threshold == 3

LowerChar(c) ==
    CASE c = "A" -> "a"
      [] c = "B" -> "b"
      [] c = "E" -> "e"
      [] c = "I" -> "i"
      [] c = "R" -> "r"
      [] c = "U" -> "u"
      [] c = "P" -> "p"
      [] c = "T" -> "t"
      [] OTHER -> c

\* str.lower()
Lower(s) == [k \in 1..Len(s) |-> LowerChar(s[k])]

Min3(x, y, z) ==
    IF x <= y /\ x <= z THEN x ELSE IF y <= z THEN y ELSE z

SubstCostAlways(x, y) == 1

\* `if a[j - 1] != b[i - 1]: change += 1`
SubstCost(x, y) == IF x # y THEN 1 ELSE 0

\* the loop over j: row[k] is current_row[k - 1]
RECURSIVE FillRow(_, _, _, _, _, _)
FillRow(a, b, i, previous_row, current_row, j) ==
    IF j > Len(a) THEN current_row
    ELSE LET add == previous_row[j + 1] + 1
             delete == current_row[j] + 1
             change == previous_row[j] + SubstCost(a[j], b[i])
         IN FillRow(a, b, i, previous_row,
                    [current_row EXCEPT ![j + 1] = Min3(add, delete, change)], j + 1)

\* the loop over i: `previous_row, current_row = current_row, [i] + [0] * n`
RECURSIVE Rows(_, _, _, _)
Rows(a, b, i, current_row) ==
    IF i > Len(b) THEN current_row
    ELSE Rows(a, b, i + 1,
              FillRow(a, b, i, current_row,
                      [k \in 1..(Len(a) + 1) |-> IF k = 1 THEN i ELSE 0], 1))

_levenshtein_distance(a, b) ==
    LET swap == Len(a) > Len(b)
        a1 == IF swap THEN b ELSE a
        b1 == IF swap THEN a ELSE b
        n == Len(a1)
    IN Rows(a1, b1, 1, [k \in 1..(n + 1) |-> k - 1])[n + 1]

\* the merge gate of parse_afisha_list, on the kinopoisk name and the listing name
Accepts(kinopoisk_name, listing_name) ==
    LET a == Lower(kinopoisk_name)
        b == Lower(listing_name)
    IN a = b \/ _levenshtein_distance(a, b) <= Threshold

\* the matcher applied to one pair of names
Match ==
    /\ ~levOut.done
    /\ levOut' = [done |-> TRUE,
                  dist |-> _levenshtein_distance(levIn.a, levIn.b),
                  accepted |-> Accepts(levIn.a, levIn.b)]
    /\ UNCHANGED <<levIn, cacheVars, pipeVars, rankVars>>

LevInit ==
    /\ levIn \in [a : Names, b : Names]
    /\ levOut = [done |-> FALSE, dist |-> 0, accepted |-> FALSE]
    /\ StoreInit(Keys) /\ PipeIdle /\ RankIdle

LevNext == Match

SpecLev == LevInit /\ [][LevNext]_vars

----------------------------------------------------------------------------
(* Claims about the identity matcher *)

\* the minimum number of single-character insertions, deletions and
\* substitutions that turn s into t
RECURSIVE EditDistance(_, _)
EditDistance(s, t) ==
    IF Len(s) = 0 THEN Len(t)
    ELSE IF Len(t) = 0 THEN Len(s)
    ELSE IF Head(s) = Head(t) THEN EditDistance(Tail(s), Tail(t))
    ELSE 1 + Min3(EditDistance(Tail(s), t),
                  EditDistance(s, Tail(t)),
                  EditDistance(Tail(s), Tail(t)))

\* C8: _levenshtein_distance(a, b) is the edit distance of a and b, hence
\* symmetric and 0 for a = b, and the merge gate accepts a pair exactly when the
\* lowercased names are equal or their edit distance is at most 3
C8_MatcherIsEditDistance ==
    levOut.done =>
        /\ levOut.dist = EditDistance(levIn.a, levIn.b)
        /\ levOut.dist = _levenshtein_distance(levIn.b, levIn.a)
        /\ levIn.a = levIn.b => levOut.dist = 0
        /\ levOut.accepted <=>
              \/ Lower(levIn.a) = Lower(levIn.b)
              \/ EditDistance(Lower(levIn.a), Lower(levIn.b)) <= 3

\* C8 witness: names four edits apart as written that the gate accepts
\* because they differ by case only
C8_Witness ==
    /\ levOut.done
    /\ levOut.dist = 4
    /\ levOut.accepted
    /\ Lower(levIn.a) = Lower(levIn.b)

\* a pair the gate rejects
C8_Rejected == levOut.done /\ ~levOut.accepted

----------------------------------------------------------------------------
(* Ranker *)

\* rate, votes and cinemas_count of the movies the ranker is run on
Ratings ==
    { [rate |-> 7, votes |-> 10, cinemas_count |-> 5],
      [rate |-> 7, votes |-> 5, cinemas_count |-> 2],
      [rate |-> 9, votes |-> 0, cinemas_count |-> 1],
      [rate |-> 0, votes |-> 0, cinemas_count |-> 3],
      [rate |-> 2, votes |-> 5, cinemas_count |-> 4],
      [rate |-> 7, votes |-> 0, cinemas_count |-> 2] }

\* list(popular_movies.values()); a movie's name is its place in the list
MovieLists ==
    UNION { { [i \in 1..n |-> [name |-> i, rate |-> f[i].rate, votes |-> f[i].votes,
                               cinemas_count |-> f[i].cinemas_count]] :
              f \in [1..n -> Ratings] } : n \in 0..MaxMovies }

\* --number: argparse takes any int
Counts == (-1)..(MaxMovies + 1)

Max2(x, y) == IF x >= y THEN x ELSE y

Min2(x, y) == IF x <= y THEN x ELSE y

VotesOf(movies) == {movies[i].votes : i \in 1..Len(movies)}

\* max(votes), min(votes)
MaxOf(S) == CHOOSE x \in S : \A y \in S : y <= x

MinOf(S) == CHOOSE x \in S : \A y \in S : x <= y

\* rate + (votes - bottom) / (top - bottom) * 10, times (top - bottom): the
\* keys are compared only where top > bottom, the division raising otherwise
_rate_with_votes(rate, votes, top, bottom) ==
    rate * (top - bottom) + (votes - bottom) * 10

\* list.sort(key=..., reverse=True) on <<key, movie>> pairs: stable, so p goes
\* behind every pair whose key is not smaller
InsertDesc(sorted, p) ==
    LET ahead == Cardinality({k \in 1..Len(sorted) : sorted[k].key >= p.key})
    IN SubSeq(sorted, 1, ahead) \o <<p>> \o SubSeq(sorted, ahead + 1, Len(sorted))

RECURSIVE SortDesc(_, _, _)
SortDesc(pairs, i, sorted) ==
    IF i > Len(pairs) THEN sorted
    ELSE SortDesc(pairs, i + 1, InsertDesc(sorted, pairs[i]))

Sorted(movies, take_votes) ==
    LET top == MaxOf(VotesOf(movies))
        bottom == MinOf(VotesOf(movies))
        pairs == [i \in 1..Len(movies) |->
                    [key |-> IF take_votes
                             THEN _rate_with_votes(movies[i].rate, movies[i].votes,
                                                   top, bottom)
                             ELSE movies[i].rate,
                     movie |-> movies[i]]]
        sorted == SortDesc(pairs, 1, <<>>)
    IN [i \in 1..Len(sorted) |-> sorted[i].movie]

RECURSIVE SumCinemas(_, _)
SumCinemas(movies, i) ==
    IF i > Len(movies) THEN 0
    ELSE movies[i].cinemas_count + SumCinemas(movies, i + 1)

AtLeastMean(cinemas_count, total, n) == cinemas_count * n >= total

\* it["cinemas_count"] > statistics.mean(cinemas), the mean being total / n
AboveMean(cinemas_count, total, n) == cinemas_count * n > total

SliceZeroIsAll(seq, count) ==
    IF count = 0 THEN seq ELSE SubSeq(seq, 1, Min2(count, Len(seq)))

\* movies[:count]
SliceTo(seq, count) ==
    SubSeq(seq, 1, IF count < 0 THEN Max2(Len(seq) + count, 0)
                   ELSE Min2(count, Len(seq)))

Raised(exc) == [done |-> TRUE, exc |-> exc, remaining |-> <<>>, rows |-> <<>>]

output_movies_to_console(movies, count, most_cinemas, take_votes) ==
    IF take_votes /\ Len(movies) = 0
    THEN Raised("ValueError")
    ELSE IF take_votes /\ MaxOf(VotesOf(movies)) = MinOf(VotesOf(movies))
    THEN Raised("ZeroDivisionError")
    ELSE IF most_cinemas /\ Len(movies) = 0
    THEN Raised("StatisticsError")
    ELSE LET sorted == Sorted(movies, take_votes)
             total == SumCinemas(sorted, 1)
             Popular(it) == AboveMean(it.cinemas_count, total, Len(sorted))
             popular == IF most_cinemas THEN SelectSeq(sorted, Popular) ELSE sorted
             Rated(it) == it.rate # 0
             rated == SelectSeq(popular, Rated)
         IN [done |-> TRUE, exc |-> "none", remaining |-> rated,
             rows |-> SliceTo(rated, count)]

Output ==
    /\ ~rankOut.done
    /\ rankOut' = output_movies_to_console(rankIn.movies, rankIn.count,
                                           rankIn.most_cinemas, rankIn.take_votes)
    /\ UNCHANGED <<rankIn, cacheVars, pipeVars, levVars>>

RankInit ==
    /\ rankIn \in [movies : MovieLists, count : Counts,
                   most_cinemas : BOOLEAN, take_votes : BOOLEAN]
    /\ rankOut = [done |-> FALSE, exc |-> "none", remaining |-> <<>>, rows |-> <<>>]
    /\ StoreInit(Keys) /\ PipeIdle /\ LevIdle

RankNext == Output

SpecRank == RankInit /\ [][RankNext]_vars

----------------------------------------------------------------------------
(* Claims about the ranker *)

Printed == rankOut.done /\ rankOut.exc = "none"

\* the first Min2(count, length) records of what sorting and filtering left
FirstOfRemaining(count) ==
    /\ Len(rankOut.rows) = Min2(count, Len(rankOut.remaining))
    /\ \A r \in 1..Len(rankOut.rows) : rankOut.rows[r] = rankOut.remaining[r]

AllVotesEqual ==
    /\ Len(rankIn.movies) > 0
    /\ \A i, j \in 1..Len(rankIn.movies) :
          rankIn.movies[i].votes = rankIn.movies[j].votes

\* C6: with vote weighting and every record having the same votes, ranking
\* raises no error and orders the records as sorting by rate does
C6_EqualVotesRankByRate ==
    (rankOut.done /\ rankIn.take_votes /\ AllVotesEqual) =>
        /\ rankOut.exc = "none"
        /\ \A r \in 1..(Len(rankOut.remaining) - 1) :
              rankOut.remaining[r].rate >= rankOut.remaining[r + 1].rate

\* the score of the reference pipeline, times maxVotes - minVotes when weighted
RefScore(m) ==
    IF rankIn.take_votes
    THEN LET hi == MaxOf(VotesOf(rankIn.movies))
             lo == MinOf(VotesOf(rankIn.movies))
         IN m.rate * (hi - lo) + (m.votes - lo) * 10
    ELSE m.rate

\* the record at place i of the input survives both filters
Eligible(i) ==
    LET ms == rankIn.movies
        n == Len(ms)
    IN /\ ms[i].rate # 0
       /\ rankIn.most_cinemas =>
             ms[i].cinemas_count * n > SumCinemas(ms, 1)

RankerPrecondition ==
    /\ rankOut.done
    /\ Len(rankIn.movies) > 0
    /\ rankIn.count >= Len(rankIn.movies)
    /\ rankIn.take_votes =>
          MaxOf(VotesOf(rankIn.movies)) # MinOf(VotesOf(rankIn.movies))

\* C7: for a non-empty list, a limit of at least its length and (when
\* weighting) unequal votes, the output holds exactly the input records with
\* rate # 0 and, when filtering, cinemas_count above the mean of all inputs,
\* each once, by descending score, equal scores in input order
C7_RankerIsReferencePipeline ==
    RankerPrecondition =>
        LET rows == rankOut.rows
        IN /\ rankOut.exc = "none"
           /\ \A r \in 1..Len(rows) :
                 /\ rows[r].name \in 1..Len(rankIn.movies)
                 /\ rows[r] = rankIn.movies[rows[r].name]
                 /\ Eligible(rows[r].name)
                 /\ rows[r].rate # 0
           /\ \A i \in 1..Len(rankIn.movies) :
                 Eligible(i) =>
                    Cardinality({r \in 1..Len(rows) : rows[r].name = i}) = 1
           /\ \A r \in 1..(Len(rows) - 1) :
                 \/ RefScore(rows[r]) > RefScore(rows[r + 1])
                 \/ /\ RefScore(rows[r]) = RefScore(rows[r + 1])
                    /\ rows[r].name < rows[r + 1].name

\* C7 witness: a vote-weighted, popularity-filtered ranking that prints two
\* records or more
C7_Witness ==
    /\ RankerPrecondition
    /\ rankIn.take_votes
    /\ rankIn.most_cinemas
    /\ Len(rankOut.rows) >= 2

\* a vote-weighted ranking with two records of equal score
C7_Tie ==
    /\ RankerPrecondition
    /\ rankIn.take_votes
    /\ \E r \in 1..(Len(rankOut.rows) - 1) :
          RefScore(rankOut.rows[r]) = RefScore(rankOut.rows[r + 1])

----------------------------------------------------------------------------
(* Fetcher *)

Barbei == <<"B", "a", "r", "b", "e", "i">>

Barbie == <<"B", "a", "r", "b", "i", "e">>

Up == <<"U", "p">>

Tenet == <<"T", "e", "n", "e", "t">>

\* kinozal_page.format(movie_title), for the titles that are looked up
KinozalUrl(movie_title) ==
    CASE movie_title = Lower(Barbei) ->
           "https://suggest-kinopoisk.yandex.net/suggest-kinopoisk?srv=kinopoisk&part=barbei"
      [] movie_title = Lower(Up) ->
           "https://suggest-kinopoisk.yandex.net/suggest-kinopoisk?srv=kinopoisk&part=up"

\* "request-" + sha1(bytes(url, "utf-8")).hexdigest()
UrlHash(url) ==
    CASE url = "https://suggest-kinopoisk.yandex.net/suggest-kinopoisk?srv=kinopoisk&part=barbei" ->
           "request-45a16ffcb7669e98c6c409c286671e3c60ec6fe8"
      [] url = "https://suggest-kinopoisk.yandex.net/suggest-kinopoisk?srv=kinopoisk&part=up" ->
           "request-31430bb7037ac862bc145029120e4c374350eff0"

LookedUp == {Lower(Barbei), Lower(Up)}

RequestKeys == {UrlHash(KinozalUrl(t)) : t \in LookedUp}

\* the lifetime fetch_page gives an entry
FetchTtl == 60 * 60 * 24

\* json.loads of a candidate: whether it parses, and the fields of the object
Candidate(title, rating, votes, rate) ==
    [valid |-> TRUE, hasTitle |-> title # <<>>, title |-> title,
     hasRating |-> rating, hasVotes |-> votes # 0, votes |-> votes,
     hasRate |-> rate # 0, rate |-> rate]

NotJson ==
    [valid |-> FALSE, hasTitle |-> FALSE, title |-> <<>>, hasRating |-> FALSE,
     hasVotes |-> FALSE, votes |-> 0, hasRate |-> FALSE, rate |-> 0]

Candidates ==
    { NotJson,
      Candidate(Barbie, TRUE, 5, 0),
      Candidate(Barbie, TRUE, 5, 7),
      Candidate(Tenet, TRUE, 5, 7) }

\* what `page.json()`, or `page.text` after a JSONDecodeError, can be
Bodies ==
    {PyNone, PyText(<<"n", "o">>), PyText(<<"<", "h", "t", "m", "l", ">">>), PyList(3, <<>>)}
    \cup {PyList(3, <<c>>) : c \in Candidates}

\* requests.get: a ConnectionError, or a page with a status and a body
Responses ==
    {[error |-> TRUE, status_code |-> 0, body |-> PyNone]}
    \cup {[error |-> FALSE, status_code |-> 404, body |-> PyText(<<"n", "o">>)]}
    \cup {[error |-> FALSE, status_code |-> 200, body |-> b] : b \in Bodies}

fetch_page(S, url, resp) ==
    LET url_hash == UrlHash(url)
        g == get(S, "CACHE", url_hash)
    IN IF g.ret # PyNone
       THEN [S |-> g.S, ans |-> g.ret, branch |-> g.branch,
             request |-> FALSE, failed |-> FALSE, stored |-> FALSE]
       ELSE IF resp.error
       THEN [S |-> g.S, ans |-> PyNone, branch |-> g.branch,
             request |-> TRUE, failed |-> TRUE, stored |-> FALSE]
       ELSE IF resp.status_code = 200
       THEN [S |-> put(g.S, "CACHE", url_hash, resp.body, FetchTtl).S,
             ans |-> resp.body, branch |-> g.branch,
             request |-> TRUE, failed |-> FALSE, stored |-> TRUE]
       ELSE [S |-> g.S, ans |-> g.ret, branch |-> g.branch,
             request |-> TRUE, failed |-> TRUE, stored |-> FALSE]

fetch_kinozal_data(S, movie_title, resp) ==
    fetch_page(S, KinozalUrl(movie_title), resp)

\* the state and history a fetch_page call leaves
Fetched(f, url) ==
    LET url_hash == UrlHash(url)
        before == lastPut["CACHE"][url_hash]
    IN /\ clsObjects' = f.S.cls
       /\ instObjects' = f.S.inst
       /\ disk' = f.S.disk
       /\ ret' = f.ans
       /\ lastOp' = [op |-> "fetch_page", inst |-> "CACHE", key |-> url_hash,
                     branch |-> f.branch]
       /\ call' = [url |-> url, key |-> url_hash,
                   shielded |-> before.present /\ now < before.expires,
                   prior |-> before.data,
                   request |-> f.request, failed |-> f.failed, stored |-> f.stored]
       /\ lastPut' = IF f.stored
                     THEN [lastPut EXCEPT !["CACHE"][url_hash] =
                              Entry(f.ans, now + FetchTtl)]
                     ELSE lastPut
       /\ UNCHANGED <<now, wiped>>

----------------------------------------------------------------------------
(* Record reconciler *)

Digits == {"0", "1", "2", "3", "4", "5", "6", "7", "8", "9"}

NoResult == [name |-> <<>>, votes |-> 0, rate |-> 0]

\* IndexError and KeyError are caught; what else is raised goes to the caller
interpret_kinopoisk_search_results(suggest_result) ==
    LET default == [exc |-> "none", res |-> NoResult]
        raise(e) == [exc |-> e, res |-> NoResult]
        sr == suggest_result
    IN CASE sr.kind = "None" -> raise("TypeError")
         [] sr.kind = "Dict" -> default
         [] sr.kind = "Text" ->
               IF Len(sr.text) < 3 THEN default
               ELSE IF sr.text[3] \in Digits THEN raise("TypeError")
               ELSE raise("JSONDecodeError")
         [] sr.kind = "List" ->
               IF sr.items < 3 \/ Len(sr.cands) = 0 THEN default
               ELSE LET most_wanted == sr.cands[1]
                    IN IF ~most_wanted.valid THEN raise("JSONDecodeError")
                       ELSE IF ~most_wanted.hasTitle THEN default
                       ELSE IF ~most_wanted.hasRating \/ ~most_wanted.hasVotes
                       THEN [exc |-> "none",
                             res |-> [NoResult EXCEPT !.name = most_wanted.title]]
                       ELSE IF ~most_wanted.hasRate
                       THEN [exc |-> "none",
                             res |-> [NoResult EXCEPT !.name = most_wanted.title,
                                                      !.votes = most_wanted.votes]]
                       ELSE [exc |-> "none",
                             res |-> [name |-> most_wanted.title,
                                      votes |-> most_wanted.votes,
                                      rate |-> most_wanted.rate]]

\* the blocks of the schedule page: the title link and the links of the table
Blocks ==
    { [name |-> Barbei, link |-> "/movie/barbei",
       anchors |-> <<[text |-> "Oktyabr", href |-> "/cinema/1"],
                     [text |-> "more", href |-> "#"],
                     [text |-> "Rodina", href |-> "/cinema/2"]>>],
      [name |-> Up, link |-> "/movie/up",
       anchors |-> <<[text |-> "Oktyabr", href |-> "/cinema/1"]>>] }

\* the cinemas of a block: its links other than "#"
CinemasOf(block) ==
    LET Real(it) == it.href # "#"
        cinemas_raw == SelectSeq(block.anchors, Real)
    IN [k \in 1..Len(cinemas_raw) |->
          [name |-> cinemas_raw[k].text, link |-> cinemas_raw[k].href]]

\* movies[i] as first built from the block
Scraped(block) ==
    [name |-> block.name, link |-> block.link, cinemas |-> CinemasOf(block),
     cinemas_count |-> Len(CinemasOf(block)), rate |-> 0, votes |-> 0]

\* movies[i].update(kinopoisk_data) behind the merge gate; the rate and votes
\* of a movie that was not updated are the 0 of Scraped
Reconciled(block, kinopoisk_data) ==
    IF Accepts(kinopoisk_data.name, block.name)
    THEN [Scraped(block) EXCEPT !.name = kinopoisk_data.name,
                                !.votes = kinopoisk_data.votes,
                                !.rate = kinopoisk_data.rate]
    ELSE Scraped(block)

NoMovie ==
    [done |-> FALSE, exc |-> "none", block |-> Scraped(CHOOSE b \in Blocks : TRUE),
     suggest |-> PyNone, record |-> Scraped(CHOOSE b \in Blocks : TRUE)]

Running == movie.exc = "none"

\* fetch_kinozal_data(movie_title) called on its own
FetchKinozal(movie_title, resp) ==
    /\ Running
    /\ Fetched(fetch_kinozal_data(Store, movie_title, resp), KinozalUrl(movie_title))
    /\ movie' = NoMovie
    /\ UNCHANGED <<levVars, rankVars>>

\* one turn of the loop of parse_afisha_list
Reconcile(block, resp) ==
    LET movie_title == Lower(block.name)
        f == fetch_kinozal_data(Store, movie_title, resp)
        k == interpret_kinopoisk_search_results(f.ans)
    IN /\ Running
       /\ Fetched(f, KinozalUrl(movie_title))
       /\ movie' = [done |-> TRUE, exc |-> k.exc, block |-> Scraped(block),
                    suggest |-> f.ans,
                    record |-> IF k.exc = "none" THEN Reconciled(block, k.res)
                               ELSE Scraped(block)]
       /\ UNCHANGED <<levVars, rankVars>>

\* a cache lifetime passes, or a second of the MaxSlack that follow one
Wait(d) ==
    /\ Running
    /\ now + d <= FetchTtl + MaxSlack
    /\ d < FetchTtl => (now + d) % FetchTtl <= MaxSlack
    /\ now' = now + d
    /\ lastOp' = [op |-> "tick", inst |-> "CACHE", key |-> lastOp.key,
                  branch |-> "tick"]
    /\ ret' = PyNone
    /\ UNCHANGED <<clsObjects, instObjects, disk, lastPut, wiped>>
    /\ UNCHANGED <<pipeVars, levVars, rankVars>>

PipeInit ==
    /\ StoreInit(RequestKeys)
    /\ call = [url |-> KinozalUrl(Lower(Up)), key |-> UrlHash(KinozalUrl(Lower(Up))),
               shielded |-> FALSE, prior |-> PyNone,
               request |-> FALSE, failed |-> FALSE, stored |-> FALSE]
    /\ movie = NoMovie
    /\ LevIdle /\ RankIdle

DoFetchKinozal == \E t \in LookedUp, resp \in Responses : FetchKinozal(t, resp)

DoReconcile == \E block \in Blocks, resp \in Responses : Reconcile(block, resp)

DoWait == \E d \in {1, FetchTtl} : Wait(d)

PipeNext == DoFetchKinozal \/ DoReconcile \/ DoWait

SpecPipe == PipeInit /\ [][PipeNext]_vars

----------------------------------------------------------------------------
(* Claims about the fetcher and the reconciler *)

\* the lookup gave no rating: no data, raw text, no candidates, or a candidate
\* lacking rating fields
NoRatingFound(p) ==
    \/ p.kind = "None"
    \/ p.kind = "Text"
    \/ p.kind = "List" /\ (p.items < 3 \/ Len(p.cands) = 0)
    \/ /\ p.kind = "List" /\ p.items >= 3 /\ Len(p.cands) > 0
       /\ p.cands[1].valid
       /\ ~p.cands[1].hasRating \/ ~p.cands[1].hasVotes \/ ~p.cands[1].hasRate

\* C4: reconciliation of a listing never raises, and leaves rate = 0 and
\* votes = 0 whenever the lookup gave no data, raw text, no candidates or a
\* candidate lacking some or all rating fields
C4_EnrichmentFailureNotFatal ==
    movie.done =>
        /\ movie.exc = "none"
        /\ NoRatingFound(movie.suggest) =>
              (movie.record.rate = 0 /\ movie.record.votes = 0)

\* C9: the key depends on the URL alone; a fetch_page(u) made while an entry a
\* 200 response stored for u has not expired returns that payload without a
\* request; a call ending in a connection error or a non-200 status returns
\* None and stores nothing, so that the next call requests again
C9_CacheShieldsNetwork ==
    lastOp.op = "fetch_page" =>
        /\ call.key = UrlHash(call.url)
        /\ call.shielded => (~call.request /\ ret = call.prior)
        /\ (call.request /\ call.failed) =>
              /\ ret = PyNone
              /\ ~call.stored
              /\ get(Store, "CACHE", call.key).ret = PyNone

\* C10: the reconciled record keeps the name, link, cinemas and cinemas_count
\* scraped from the listing, whatever the lookup returned
C10_ReconcileKeepsListingFields ==
    (movie.done /\ movie.exc = "none") =>
        /\ movie.record.name = movie.block.name
        /\ movie.record.link = movie.block.link
        /\ movie.record.cinemas = movie.block.cinemas
        /\ movie.record.cinemas_count = movie.block.cinemas_count

====
